---- MODULE Spec2Model ----
(***************************************************************************)
(* Strip-board scheduling engine: the StripSlot and DayBreak tables of one *)
(* schedule and the route handlers that change them.  Every `await` of a   *)
(* handler that reads or writes the database is one step of the request;   *)
(* statements run inside prisma.$transaction write into the request's      *)
(* pending write set `tx`, which becomes visible to other requests only at *)
(* commit (PostgreSQL READ COMMITTED, Prisma's default).                   *)
(***************************************************************************)
EXTENDS Integers, Sequences, FiniteSets, TLC

\* Bounds of the model.
MaxStrips == 3
NumProcs == 2
MaxAfter == 2
MaxBreaks == 3

Procs == 1..NumProcs
\* ids the StripSlot rows (and their breakdown sheets) can take
StripIds == 1..MaxStrips
\* ids a client can send: every StripSlot id and one id that names no row
RequestIds == 1..(MaxStrips + 1)
\* newPosition values a client can send: below, inside and above [1, N]
RequestPositions == 0..(MaxStrips + 1)
\* afterPosition values a client can send: one negative, the rest >= 0
RequestAfter == (0 - 1)..MaxAfter

VARIABLES
    strips,     \* committed StripSlot rows: id -> position, NoRow when absent
    nextStrip,  \* the next fresh StripSlot/BreakdownSheet id
    dayBreaks,  \* committed DayBreak rows: set of [id, afterPosition, dayNumber]
    nextBreak,  \* the next fresh DayBreak id
    pc,         \* each request's position in its handler
    req,        \* each request's body and local constants
    tx,         \* each request's uncommitted StripSlot writes
    base,       \* the committed tables when the request began (history)
    schedule,   \* the schedule object a client has fetched for its reports
    report,     \* what the Reports tab has computed from `schedule`
    pageCount,  \* a page count as a number, as text and as parsed from text
    startDate,  \* committed Schedule.startDate, NoDate when null
    sheets      \* committed BreakdownSheet rows (scenes): the set of their ids

vars == <<strips, nextStrip, dayBreaks, nextBreak, pc, req, tx, base,
          schedule, report, pageCount, startDate, sheets>>

NoRow == 0
NoWrite == 0 - 1
NoBreak == [id |-> 0, afterPosition |-> 0, dayNumber |-> 0]

\* no start date set: schedule.startDate is null
NoDate == [datePart |-> <<>>, timePart |-> ""]

NoReq ==
    [kind |-> "none", stripId |-> 0, newPosition |-> 0, oldPosition |-> 0,
     bdId |-> 0, deletedPosition |-> 0, nextPosition |-> 0,
     afterPosition |-> 0, existingDayBreak |-> NoBreak, nextDayNumber |-> 0,
     newDayBreak |-> NoBreak, dayBreaks |-> <<>>,
     status |-> 0, action |-> "", calls |-> 0, dbId |-> 0,
     startDate |-> NoDate]

NoTx == [s \in StripIds |-> NoWrite]

\* nothing fetched, nothing rendered
NoSchedule == [stripSlots |-> <<>>, dayBreaks |-> {}, startDate |-> NoDate]

\* JavaScript numbers: a fraction n/d of non-negative integers, NaN, Infinity
Num(n, d) == [kind |-> "num", n |-> n, d |-> d]

NaN == [kind |-> "NaN", n |-> 0, d |-> 0]

Infinity == [kind |-> "Infinity", n |-> 0, d |-> 0]

\* no page count entered: breakdown.pageCount is null
NoText == <<"null">>

NoPageCount == [step |-> "none", pages |-> Num(0, 1), text |-> NoText, total |-> Num(0, 1)]

NoReport == [kind |-> "none", days |-> <<>>, statuses |-> <<>>, workDays |-> 0]

Snapshot == [strips |-> strips, dayBreaks |-> dayBreaks, startDate |-> startDate]

----------------------------------------------------------------------------
(* The database.                                                           *)

Present(v) == {s \in StripIds : v[s] # NoRow}

Count(v) == Cardinality(Present(v))

Positions(v) == {v[s] : s \in Present(v)}

\* _max: { position: true } : null (here 0) when the schedule has no strip
MaxPosition(v) ==
    IF Present(v) = {} THEN 0
    ELSE CHOOSE m \in {v[s] : s \in Present(v)} :
             \A s \in Present(v) : v[s] <= m

\* a row written by another request's open transaction is locked; a
\* statement that has to write a locked row waits for that transaction to
\* end and then runs against the rows committed by then
Locked(p, s) == \E q \in Procs \ {p} : tx[q][s] # NoWrite

\* what a statement of p's transaction reads: committed rows under p's writes
View(p) == [s \in StripIds |-> IF tx[p][s] # NoWrite THEN tx[p][s] ELSE strips[s]]

Done(p, status) ==
    /\ pc' = [pc EXCEPT ![p] = "done"]
    /\ UNCHANGED <<schedule, report, pageCount, startDate, sheets>>
    /\ req' = [req EXCEPT ![p].status = status]

Goto(p, label) ==
    /\ pc' = [pc EXCEPT ![p] = label]
    /\ UNCHANGED <<schedule, report, pageCount, startDate, sheets>>

\* a request slot is free until a client uses it
NotRunning(p) == pc[p] = "idle"

\* the response has been sent and read: the slot is free again
Return(p) ==
    /\ pc[p] = "done"
    /\ pc' = [pc EXCEPT ![p] = "idle"]
    /\ UNCHANGED <<schedule, report, pageCount, startDate, sheets>>
    /\ req' = [req EXCEPT ![p] = NoReq]
    /\ UNCHANGED <<strips, nextStrip, dayBreaks, nextBreak, tx, base>>

----------------------------------------------------------------------------
(* The gate every mutating route passes first: auth(), getProjectAccess,   *)
(* and the check of canEdit and isOwner.                                   *)

\* who can send a request: the project's owner, its three kinds of member,
\* a signed-in user who is no member, and a caller without a session
Callers == {"owner", "admin", "editor", "viewer", "stranger", "anonymous"}

\* the project row and its ProjectMember rows
Project ==
    [ownerId |-> "owner",
     members |-> {[userId |-> "admin", role |-> "ADMIN"],
                  [userId |-> "editor", role |-> "EDITOR"],
                  [userId |-> "viewer", role |-> "VIEWER"]}]

CanEditAnyRole(role) == TRUE

\* membership.role === "ADMIN" || membership.role === "EDITOR"
CanEdit(role) == role \in {"ADMIN", "EDITOR"}

getProjectAccess(userId) ==
    LET membership == {m \in Project.members : m.userId = userId}
    IN  IF Project.ownerId = userId
        THEN [hasAccess |-> TRUE, canEdit |-> TRUE, isOwner |-> TRUE]
        ELSE IF membership = {}
        THEN [hasAccess |-> FALSE, canEdit |-> FALSE, isOwner |-> FALSE]
        ELSE [hasAccess |-> TRUE,
              canEdit |-> \A m \in membership : CanEdit(m.role),
              isOwner |-> FALSE]

\* the status the gate answers with, 0 when it lets the request through
GateStatus(caller) ==
    IF caller = "anonymous" THEN 401
    ELSE LET access == getProjectAccess(caller)
         IN  IF ~access.hasAccess THEN 404
             ELSE IF ~access.canEdit /\ ~access.isOwner THEN 403
             ELSE 0

\* the early return of a route: nothing has been read or written yet
Reject(p, kind, status) ==
    /\ NotRunning(p)
    /\ req' = [req EXCEPT ![p] = [NoReq EXCEPT !.kind = kind, !.status = status]]
    /\ Goto(p, "done")
    /\ UNCHANGED <<strips, nextStrip, dayBreaks, nextBreak, tx>>

----------------------------------------------------------------------------
(* POST /api/projects/[id]/schedule/reorder                                *)

\* the where clause of the updateMany that shifts the strips in between
ShiftWhereExclusive(position, oldPosition, newPosition) ==
    IF newPosition > oldPosition
    THEN position > oldPosition /\ position < newPosition
    ELSE position > newPosition /\ position < oldPosition

ShiftWhere(position, oldPosition, newPosition) ==
    IF newPosition > oldPosition
    THEN position > oldPosition /\ position <= newPosition
    ELSE position >= newPosition /\ position < oldPosition

ShiftDataDecrement(position, oldPosition, newPosition) == position - 1

\* data: { position: { decrement: 1 } } or { increment: 1 }
ShiftData(position, oldPosition, newPosition) ==
    IF newPosition > oldPosition THEN position - 1 ELSE position + 1

\* body validation and stripSlot.findFirst, up to the "No change needed"
\* return (stripId is a non-empty string and newPosition an integer here)
ReorderFindStrip(p, stripId, newPosition) ==
    /\ NotRunning(p)
    /\ LET r == [NoReq EXCEPT !.kind = "reorder", !.stripId = stripId,
                              !.newPosition = newPosition]
       IN  IF newPosition < 1
           THEN /\ req' = [req EXCEPT ![p] = [r EXCEPT !.status = 400]]
                /\ Goto(p, "done")
           ELSE IF stripId \notin StripIds \/ strips[stripId] = NoRow
           THEN /\ req' = [req EXCEPT ![p] = [r EXCEPT !.status = 404]]
                /\ Goto(p, "done")
           ELSE IF strips[stripId] = newPosition
           THEN /\ req' = [req EXCEPT ![p] =
                       [r EXCEPT !.oldPosition = strips[stripId],
                                 !.status = 200, !.action = "noop"]]
                /\ Goto(p, "done")
           ELSE /\ req' = [req EXCEPT ![p] =
                       [r EXCEPT !.oldPosition = strips[stripId]]]
                /\ Goto(p, "reorderMax")
    /\ UNCHANGED <<strips, nextStrip, dayBreaks, nextBreak, tx>>

ExceedsMaxOffByOne(newPosition, maxPosition) ==
    newPosition > (IF maxPosition = 0 THEN 1 ELSE maxPosition) + 1

\* newPosition > (maxPosition._max.position || 1)
ExceedsMax(newPosition, maxPosition) ==
    newPosition > (IF maxPosition = 0 THEN 1 ELSE maxPosition)

\* stripSlot.aggregate and the upper range check
ReorderAggregate(p) ==
    /\ pc[p] = "reorderMax"
    /\ IF ExceedsMax(req[p].newPosition, MaxPosition(strips))
       THEN Done(p, 400)
       ELSE Goto(p, "reorderShift") /\ UNCHANGED req
    /\ UNCHANGED <<strips, nextStrip, dayBreaks, nextBreak, tx, base>>

\* the updateMany issued on the shared client instead of the transaction's
ReorderShiftOutsideTx(p) ==
    /\ pc[p] = "reorderShift"
    /\ \A s \in Present(strips) : ~Locked(p, s)
    /\ strips' = [s \in StripIds |->
            IF strips[s] # NoRow
               /\ ShiftWhere(strips[s], req[p].oldPosition, req[p].newPosition)
            THEN ShiftData(strips[s], req[p].oldPosition, req[p].newPosition)
            ELSE strips[s]]
    /\ Goto(p, "reorderPlace")
    /\ UNCHANGED <<nextStrip, dayBreaks, nextBreak, req, tx, base>>

\* first statement of the transaction: tx.stripSlot.updateMany
ReorderShift(p) ==
    /\ pc[p] = "reorderShift"
    /\ LET hit == {s \in Present(strips) :
                      ShiftWhere(strips[s], req[p].oldPosition, req[p].newPosition)}
       IN  /\ \A s \in hit : ~Locked(p, s)
           /\ tx' = [tx EXCEPT ![p] = [s \in StripIds |->
                        IF s \in hit
                        THEN ShiftData(strips[s], req[p].oldPosition, req[p].newPosition)
                        ELSE NoWrite]]
    /\ Goto(p, "reorderPlace")
    /\ UNCHANGED <<strips, nextStrip, dayBreaks, nextBreak, req, base>>

\* second statement, tx.stripSlot.update by id, then commit; an update of a
\* row that no longer exists throws and the transaction rolls back
ReorderPlaceMovingBreak(p) ==
    /\ pc[p] = "reorderPlace"
    /\ ~Locked(p, req[p].stripId)
    /\ IF View(p)[req[p].stripId] = NoRow
       THEN Done(p, 500) /\ UNCHANGED <<strips, dayBreaks>>
       ELSE /\ strips' = [View(p) EXCEPT ![req[p].stripId] = req[p].newPosition]
            /\ dayBreaks' = {IF b.afterPosition = req[p].oldPosition
                             THEN [b EXCEPT !.afterPosition = req[p].newPosition]
                             ELSE b : b \in dayBreaks}
            /\ Done(p, 200)
    /\ tx' = [tx EXCEPT ![p] = NoTx]
    /\ UNCHANGED <<nextStrip, nextBreak, base>>

\* tx.stripSlot.update of the moved strip, commit
ReorderPlace(p) ==
    /\ pc[p] = "reorderPlace"
    /\ ~Locked(p, req[p].stripId)
    /\ IF View(p)[req[p].stripId] = NoRow
       THEN Done(p, 500) /\ UNCHANGED strips
       ELSE /\ strips' = [View(p) EXCEPT ![req[p].stripId] = req[p].newPosition]
            /\ Done(p, 200)
    /\ tx' = [tx EXCEPT ![p] = NoTx]
    /\ UNCHANGED <<nextStrip, dayBreaks, nextBreak, base>>

\* the transaction fails between its statements (connection loss, the
\* interactive transaction's timeout): rollback, caught, 500
ReorderRollback(p) ==
    /\ pc[p] = "reorderPlace"
    /\ tx' = [tx EXCEPT ![p] = NoTx]
    /\ Done(p, 500)
    /\ UNCHANGED <<strips, nextStrip, dayBreaks, nextBreak, base>>

ReorderStep(p) ==
    \/ ReorderAggregate(p)
    \/ ReorderShift(p)
    \/ ReorderPlace(p)
    \/ ReorderRollback(p)

----------------------------------------------------------------------------
(* POST /api/projects/[id]/breakdowns: a scene and its strip.  The         *)
(* StripSlot row of a scene is kept under the scene's id (its breakdownId, *)
(* unique by StripSlot_breakdownId_key).                                   *)

\* (maxPosition._max.position || 0) + 1
NextPosition(v) == MaxPosition(v) + 1

Creating == {q \in Procs : pc[q] = "createTx"}

\* stripSlot.aggregate, before the transaction
CreateAggregate(p) ==
    /\ NotRunning(p)
    /\ nextStrip + Cardinality(Creating) <= MaxStrips
    /\ req' = [req EXCEPT ![p] =
                  [NoReq EXCEPT !.kind = "create", !.nextPosition = NextPosition(strips)]]
    /\ Goto(p, "createTx")
    /\ UNCHANGED <<strips, nextStrip, dayBreaks, nextBreak, tx>>

\* the transaction: breakdownSheet.create, stripSlot.create, commit
CreateInsert(p) ==
    /\ pc[p] = "createTx"
    /\ strips' = [strips EXCEPT ![nextStrip] = req[p].nextPosition]
    /\ nextStrip' = nextStrip + 1
    /\ sheets' = sheets \cup {nextStrip}
    /\ pc' = [pc EXCEPT ![p] = "done"]
    /\ UNCHANGED <<schedule, report, pageCount, startDate>>
    /\ req' = [req EXCEPT ![p].bdId = nextStrip, ![p].status = 201]
    /\ UNCHANGED <<dayBreaks, nextBreak, tx, base>>

----------------------------------------------------------------------------
(* DELETE /api/projects/[id]/breakdowns/[bdId]                             *)

DeleteShiftWhereBelow(position, deletedPosition) == position < deletedPosition

\* position: { gt: deletedPosition }
DeleteShiftWhere(position, deletedPosition) == position > deletedPosition

\* breakdownSheet.findFirst with its stripSlot, before the transaction
DeleteFind(p, bdId) ==
    /\ NotRunning(p)
    /\ LET r == [NoReq EXCEPT !.kind = "delete", !.bdId = bdId]
       IN  IF bdId \notin sheets
           THEN /\ req' = [req EXCEPT ![p] = [r EXCEPT !.status = 404]]
                /\ Goto(p, "done")
           ELSE IF strips[bdId] = NoRow
           THEN /\ req' = [req EXCEPT ![p] = r]
                /\ Goto(p, "deleteShift")
           ELSE /\ req' = [req EXCEPT ![p] = [r EXCEPT !.deletedPosition = strips[bdId]]]
                /\ Goto(p, "deleteStrip")
    /\ UNCHANGED <<strips, nextStrip, dayBreaks, nextBreak, tx>>

DeleteStripOutsideTx(p) ==
    /\ pc[p] = "deleteStrip"
    /\ ~Locked(p, req[p].bdId)
    /\ IF strips[req[p].bdId] = NoRow
       THEN Done(p, 500) /\ UNCHANGED strips
       ELSE /\ strips' = [strips EXCEPT ![req[p].bdId] = NoRow]
            /\ Goto(p, "deleteShift") /\ UNCHANGED req
    /\ UNCHANGED <<tx, nextStrip, dayBreaks, nextBreak, base>>

\* first statement of the transaction: tx.stripSlot.delete by id; deleting
\* a row that no longer exists throws and the transaction rolls back
DeleteStrip(p) ==
    /\ pc[p] = "deleteStrip"
    /\ ~Locked(p, req[p].bdId)
    /\ IF strips[req[p].bdId] = NoRow
       THEN Done(p, 500) /\ UNCHANGED tx
       ELSE /\ tx' = [tx EXCEPT ![p][req[p].bdId] = NoRow]
            /\ Goto(p, "deleteShift") /\ UNCHANGED req
    /\ UNCHANGED <<strips, nextStrip, dayBreaks, nextBreak, base>>

\* tx.stripSlot.updateMany closing the gap (when the scene had a strip),
\* tx.breakdownSheet.delete, commit
DeleteShift(p) ==
    /\ pc[p] = "deleteShift"
    /\ LET v == View(p)
           hit == {s \in Present(v) :
                      /\ req[p].deletedPosition # NoRow
                      /\ DeleteShiftWhere(v[s], req[p].deletedPosition)}
       IN  /\ \A s \in hit : ~Locked(p, s)
           /\ strips' = [s \in StripIds |-> IF s \in hit THEN v[s] - 1 ELSE v[s]]
    /\ sheets' = sheets \ {req[p].bdId}
    /\ tx' = [tx EXCEPT ![p] = NoTx]
    /\ pc' = [pc EXCEPT ![p] = "done"]
    /\ req' = [req EXCEPT ![p].status = 200]
    /\ UNCHANGED <<nextStrip, dayBreaks, nextBreak, base, schedule, report,
                   pageCount, startDate>>

\* the transaction fails after its first statement: rollback, caught, 500
DeleteRollback(p) ==
    /\ pc[p] = "deleteShift"
    /\ tx' = [tx EXCEPT ![p] = NoTx]
    /\ Done(p, 500)
    /\ UNCHANGED <<strips, nextStrip, dayBreaks, nextBreak, base>>

SceneStep(p) ==
    \/ CreateInsert(p)
    \/ DeleteStrip(p)
    \/ DeleteShift(p)
    \/ DeleteRollback(p)

----------------------------------------------------------------------------
(* POST /api/projects/[id]/schedule/daybreaks: toggle a day break          *)

BreakAtDayNumber(rows, afterPosition) == {b \in rows : b.dayNumber = afterPosition}

\* where: { scheduleId_afterPosition: { scheduleId, afterPosition } }
BreakAt(rows, afterPosition) == {b \in rows : b.afterPosition = afterPosition}

BreakIdsOf(rows) == {b.id : b \in rows}

\* _max: { dayNumber: true } : null (here 0) when there is no day break
MaxDayNumber(rows) ==
    IF rows = {} THEN 0
    ELSE CHOOSE m \in {b.dayNumber : b \in rows} : \A b \in rows : b.dayNumber <= m

NextDayNumberFromCount(rows) == Cardinality(rows) + 1

\* (maxDayNumber._max.dayNumber || 0) + 1
NextDayNumber(rows) == MaxDayNumber(rows) + 1

NoUniqueIndex(rows, afterPosition) == FALSE

\* CREATE UNIQUE INDEX "DayBreak_scheduleId_afterPosition_key"
UniqueViolation(rows, afterPosition) == BreakAt(rows, afterPosition) # {}

CreatingBreak == {q \in Procs : pc[q] \in {"toggleMax", "toggleCreate"}}

\* body validation and dayBreak.findUnique; `calls` counts the calls the
\* client has made just before this one
ToggleFindFrom(p, afterPosition, calls) ==
    /\ LET r == [NoReq EXCEPT !.kind = "toggle", !.afterPosition = afterPosition,
                              !.calls = calls]
           found == BreakAt(dayBreaks, afterPosition)
       IN  IF afterPosition < 0
           THEN /\ req' = [req EXCEPT ![p] = [r EXCEPT !.status = 400]]
                /\ Goto(p, "done")
           ELSE IF found # {}
           THEN /\ req' = [req EXCEPT ![p] =
                       [r EXCEPT !.existingDayBreak = CHOOSE b \in found : TRUE]]
                /\ Goto(p, "toggleDelete")
           ELSE /\ nextBreak + Cardinality(CreatingBreak) <= MaxBreaks
                /\ req' = [req EXCEPT ![p] = r]
                /\ Goto(p, "toggleMax")
    /\ UNCHANGED <<strips, nextStrip, dayBreaks, nextBreak, tx>>

ToggleFind(p, afterPosition) ==
    NotRunning(p) /\ ToggleFindFrom(p, afterPosition, 0)

\* toggleDayBreak called again with the same afterPosition, right after the
\* first call has answered
ToggleAgain(p) ==
    /\ pc[p] = "done"
    /\ req[p].kind = "toggle"
    /\ req[p].action \in {"created", "deleted"}
    /\ req[p].calls = 0
    /\ ToggleFindFrom(p, req[p].afterPosition, 1)

\* dayBreak.delete by id; deleting a row that no longer exists throws
ToggleDelete(p) ==
    /\ pc[p] = "toggleDelete"
    /\ LET gone == {b \in dayBreaks : b.id = req[p].existingDayBreak.id}
       IN  IF gone = {}
           THEN /\ Done(p, 500)
                /\ UNCHANGED dayBreaks
           ELSE /\ dayBreaks' = dayBreaks \ gone
                /\ pc' = [pc EXCEPT ![p] = "done"]
                /\ UNCHANGED <<schedule, report, pageCount, startDate, sheets>>
                /\ req' = [req EXCEPT ![p].status = 200, ![p].action = "deleted"]
    /\ UNCHANGED <<strips, nextStrip, nextBreak, tx, base>>

\* dayBreak.aggregate
ToggleAggregate(p) ==
    /\ pc[p] = "toggleMax"
    /\ req' = [req EXCEPT ![p].nextDayNumber = NextDayNumber(dayBreaks)]
    /\ Goto(p, "toggleCreate")
    /\ UNCHANGED <<strips, nextStrip, dayBreaks, nextBreak, tx, base>>

\* dayBreak.create; the unique index rejects a second row at the position
ToggleCreate(p) ==
    /\ pc[p] = "toggleCreate"
    /\ IF UniqueViolation(dayBreaks, req[p].afterPosition)
       THEN /\ Done(p, 500)
            /\ UNCHANGED <<dayBreaks, nextBreak>>
       ELSE LET newDayBreak == [id |-> nextBreak,
                                afterPosition |-> req[p].afterPosition,
                                dayNumber |-> req[p].nextDayNumber]
            IN  /\ dayBreaks' = dayBreaks \cup {newDayBreak}
                /\ nextBreak' = nextBreak + 1
                /\ pc' = [pc EXCEPT ![p] = "done"]
                /\ UNCHANGED <<schedule, report, pageCount, startDate, sheets>>
                /\ req' = [req EXCEPT ![p].status = 201, ![p].action = "created",
                                      ![p].newDayBreak = newDayBreak]
    /\ UNCHANGED <<strips, nextStrip, tx, base>>

----------------------------------------------------------------------------
(* POST /api/projects/[id]/schedule/daybreaks/renumber                     *)

SortedByDayNumberDesc(rows) ==
    CHOOSE list \in [1..Cardinality(rows) -> {b.id : b \in rows}] :
        /\ \A i, j \in 1..Cardinality(rows) : i # j => list[i] # list[j]
        /\ \A i, j \in 1..Cardinality(rows) :
               i < j => \A a, b \in rows :
                           (a.id = list[i] /\ b.id = list[j])
                               => a.dayNumber >= b.dayNumber

\* orderBy: { afterPosition: "asc" }, as the list of ids
SortedByAfterPosition(rows) ==
    CHOOSE list \in [1..Cardinality(rows) -> BreakIdsOf(rows)] :
        /\ \A i, j \in 1..Cardinality(rows) : i # j => list[i] # list[j]
        /\ \A i, j \in 1..Cardinality(rows) :
               i < j => \A a, b \in rows :
                           (a.id = list[i] /\ b.id = list[j])
                               => a.afterPosition <= b.afterPosition

DayNumberAtZeroBased(index) == index

\* data: { dayNumber: index + 1 }
DayNumberAt(index) == index + 1

\* dayBreak.findMany ordered by afterPosition
RenumberFetchFrom(p, calls) ==
    /\ req' = [req EXCEPT ![p] =
                  [NoReq EXCEPT !.kind = "renumber", !.calls = calls,
                                !.dayBreaks = SortedByAfterPosition(dayBreaks)]]
    /\ Goto(p, "renumberTx")
    /\ UNCHANGED <<strips, nextStrip, dayBreaks, nextBreak, tx>>

RenumberFetch(p) == NotRunning(p) /\ RenumberFetchFrom(p, 0)

\* renumberDayBreaks called a second time, right after the first has answered
RenumberAgain(p) ==
    /\ pc[p] = "done"
    /\ req[p].kind = "renumber"
    /\ req[p].status = 200
    /\ req[p].calls = 0
    /\ RenumberFetchFrom(p, 1)

\* the batch transaction of dayBreak.update by id, one per fetched row, in
\* list order; an update of a row that no longer exists throws and the
\* whole batch rolls back.  The batch touches dayNumber only, so its effect
\* is that of one step at its commit.
RenumberUpdate(p) ==
    /\ pc[p] = "renumberTx"
    /\ LET list == req[p].dayBreaks
       IN  IF \E i \in 1..Len(list) : list[i] \notin BreakIdsOf(dayBreaks)
           THEN /\ Done(p, 500)
                /\ UNCHANGED dayBreaks
           ELSE /\ dayBreaks' =
                      {IF \E i \in 1..Len(list) : list[i] = b.id
                       THEN [b EXCEPT !.dayNumber =
                                DayNumberAt((CHOOSE i \in 1..Len(list) : list[i] = b.id) - 1)]
                       ELSE b : b \in dayBreaks}
                /\ Done(p, 200)
    /\ UNCHANGED <<strips, nextStrip, nextBreak, tx, base>>

\* handleToggleDayBreak: once the toggle request has succeeded (apiPost
\* throws otherwise), the same client sends the renumber request
RenumberAfterToggle(p) ==
    /\ pc[p] = "done"
    /\ req[p].kind = "toggle"
    /\ req[p].status \in {200, 201}
    /\ req' = [req EXCEPT ![p] =
                  [NoReq EXCEPT !.kind = "renumber",
                                !.afterPosition = req[p].afterPosition,
                                !.dayBreaks = SortedByAfterPosition(dayBreaks)]]
    /\ Goto(p, "renumberTx")
    /\ UNCHANGED <<strips, nextStrip, dayBreaks, nextBreak, tx, base>>

DayBreakStep(p) ==
    \/ ToggleDelete(p)
    \/ ToggleAggregate(p)
    \/ ToggleCreate(p)
    \/ RenumberUpdate(p)

----------------------------------------------------------------------------
(* DELETE /api/projects/[id]/schedule/daybreaks/[dbId]                     *)

\* dayBreak.findFirst({ where: { id: dbId, scheduleId } })
DeleteBreakFind(p, dbId) ==
    /\ NotRunning(p)
    /\ LET r == [NoReq EXCEPT !.kind = "deleteDayBreak", !.dbId = dbId]
           found == {b \in dayBreaks : b.id = dbId}
       IN  IF found = {}
           THEN /\ req' = [req EXCEPT ![p] = [r EXCEPT !.status = 404]]
                /\ Goto(p, "done")
           ELSE /\ req' = [req EXCEPT ![p] = r]
                /\ Goto(p, "deleteBreak")
    /\ UNCHANGED <<strips, nextStrip, dayBreaks, nextBreak, tx>>

\* dayBreak.delete({ where: { id: dbId } }); a row gone by now throws
DeleteBreakDelete(p) ==
    /\ pc[p] = "deleteBreak"
    /\ LET gone == {b \in dayBreaks : b.id = req[p].dbId}
       IN  IF gone = {}
           THEN /\ Done(p, 500)
                /\ UNCHANGED dayBreaks
           ELSE /\ dayBreaks' = dayBreaks \ gone
                /\ Done(p, 200)
    /\ UNCHANGED <<strips, nextStrip, nextBreak, tx, base>>

----------------------------------------------------------------------------
(* PATCH /api/projects/[id]/schedule: set, change or clear the start date  *)

\* new Date(startDate): the day at midnight UTC, which is how the column
\* keeps it and how the schedule object carries it
NewDate(dateStr) == [datePart |-> dateStr.datePart, timePart |-> "00:00:00.000Z"]

SetStartDateDroppingBreaks(p, date) ==
    /\ NotRunning(p)
    /\ startDate' = IF date # NoDate THEN NewDate(date) ELSE NoDate
    /\ dayBreaks' = {}
    /\ req' = [req EXCEPT ![p] =
                  [NoReq EXCEPT !.kind = "setStartDate", !.startDate = date,
                                !.status = 200]]
    /\ pc' = [pc EXCEPT ![p] = "done"]
    /\ UNCHANGED <<strips, nextStrip, nextBreak, tx, schedule, report,
                   pageCount, sheets>>

\* prisma.schedule.update({ data: { startDate: startDate ? new Date(startDate) : null } })
SetStartDate(p, date) ==
    /\ NotRunning(p)
    /\ startDate' = IF date # NoDate THEN NewDate(date) ELSE NoDate
    /\ req' = [req EXCEPT ![p] =
                  [NoReq EXCEPT !.kind = "setStartDate", !.startDate = date,
                                !.status = 200]]
    /\ pc' = [pc EXCEPT ![p] = "done"]
    /\ UNCHANGED <<strips, nextStrip, dayBreaks, nextBreak, tx, schedule, report,
                   pageCount, sheets>>

----------------------------------------------------------------------------
(* GET /api/projects/[id]/schedule: the schedule object the tabs work on   *)

\* stripSlots ordered by position; rows with equal positions come in either
\* order.  The casts are not part of the tables here.
StripSlotsOf(v) ==
    LET n == Cardinality(Present(v))
        order == CHOOSE f \in [1..n -> Present(v)] :
                     /\ \A i, j \in 1..n : i # j => f[i] # f[j]
                     /\ \A i, j \in 1..n : i < j => v[f[i]] <= v[f[j]]
    IN  [i \in 1..n |-> [position |-> v[order[i]], cast |-> {}]]

GetSchedule ==
    [stripSlots |-> StripSlotsOf(strips), dayBreaks |-> dayBreaks,
     startDate |-> startDate]

----------------------------------------------------------------------------
(* The Reports tab: pure functions of the schedule object the client has   *)
(* fetched (strip slots in position order, day breaks, start date).        *)

\* the one cast member whose row of the Day Out of Days is followed
Member == 1

\* new Date(year, month - 1, day, 12, 0, 0) of the date part of the string
parseLocalDate(dateStr) ==
    [year |-> dateStr.datePart[1], month |-> dateStr.datePart[2],
     day |-> dateStr.datePart[3]]

IsLeapYear(year) == (year % 4 = 0 /\ year % 100 # 0) \/ year % 400 = 0

DaysInMonth(year, month) ==
    IF month = 2 THEN (IF IsLeapYear(year) THEN 29 ELSE 28)
    ELSE IF month \in {4, 6, 9, 11} THEN 30 ELSE 31

\* Date.prototype.setDate with a day of the month >= 1: days past the end
\* of the month roll over into the following months
RECURSIVE SetDate(_, _, _)
SetDate(year, month, day) ==
    IF day <= DaysInMonth(year, month)
    THEN [year |-> year, month |-> month, day |-> day]
    ELSE IF month = 12
         THEN SetDate(year + 1, 1, day - DaysInMonth(year, month))
         ELSE SetDate(year, month + 1, day - DaysInMonth(year, month))

addDaysFromDayNumber(date, days) == SetDate(date.year, date.month, date.day + days + 1)

\* result.setDate(result.getDate() + days)
addDays(date, days) == SetDate(date.year, date.month, date.day + days)

\* toLocaleDateString with weekday, month and day: the year is not shown
\* (the weekday is determined by the date and is left out here)
NoShootDate == [month |-> 0, day |-> 0]

formatShootDate(date) == [month |-> date.month, day |-> date.day]

\* startDate ? formatShootDate(addDays(startDate, currentDay - 1)) : undefined
ShootDate(sched, currentDay) ==
    IF sched.startDate # NoDate
    THEN formatShootDate(addDays(parseLocalDate(sched.startDate), currentDay - 1))
    ELSE NoShootDate

DayBreakAtNextPosition(sched, strip) ==
    \E db \in sched.dayBreaks : db.afterPosition = strip.position + 1

\* dayBreakMap.get(strip.position)
DayBreakAfter(sched, strip) ==
    \E db \in sched.dayBreaks : db.afterPosition = strip.position

\* strips.forEach: g carries days, currentDay and currentDayStrips
RECURSIVE GroupStrips(_, _, _)
GroupStrips(sched, i, g) ==
    IF i > Len(sched.stripSlots) THEN g
    ELSE LET strip == sched.stripSlots[i]
             currentDayStrips == Append(g.currentDayStrips, strip)
         IN  IF DayBreakAfter(sched, strip)
             THEN GroupStrips(sched, i + 1,
                      [days |-> Append(g.days,
                                   [dayNumber |-> g.currentDay,
                                    strips |-> currentDayStrips,
                                    shootDate |-> ShootDate(sched, g.currentDay)]),
                       currentDay |-> g.currentDay + 1,
                       currentDayStrips |-> <<>>])
             ELSE GroupStrips(sched, i + 1,
                      [g EXCEPT !.currentDayStrips = currentDayStrips])

\* the grouping of the shooting schedule, on screen and in the PDF
GroupByDay(sched) ==
    LET g == GroupStrips(sched, 1,
                 [days |-> <<>>, currentDay |-> 1, currentDayStrips |-> <<>>])
    IN  IF Len(g.currentDayStrips) > 0
        THEN Append(g.days, [dayNumber |-> g.currentDay,
                             strips |-> g.currentDayStrips,
                             shootDate |-> ShootDate(sched, g.currentDay)])
        ELSE g.days

\* the grouping of the Day Out of Days: the same loop, keeping the strips only
DoodDays(sched) ==
    LET days == GroupByDay(sched)
    IN  [i \in 1..Len(days) |-> days[i].strips]

\* dayStrips.some(s => s.breakdown.cast.some(c => c.characterId === char.id))
WorksToday(dayStrips, char) ==
    \E i \in 1..Len(dayStrips) : char \in dayStrips[i].cast

\* days.forEach: d carries status, hasStarted and lastWorkDay (0-based, -1 at first)
RECURSIVE ScanDays(_, _, _, _)
ScanDays(days, char, dayIndex, d) ==
    IF dayIndex >= Len(days) THEN d
    ELSE IF WorksToday(days[dayIndex + 1], char)
         THEN ScanDays(days, char, dayIndex + 1,
                  [status |-> Append(d.status, IF d.hasStarted THEN "W" ELSE "SW"),
                   hasStarted |-> TRUE,
                   lastWorkDay |-> dayIndex])
         ELSE ScanDays(days, char, dayIndex + 1,
                  [d EXCEPT !.status = Append(d.status,
                                           IF d.hasStarted THEN "H" ELSE "")])

FinishMarkAlwaysWF(status, lastWorkDay) ==
    IF lastWorkDay >= 0
    THEN [status EXCEPT ![lastWorkDay + 1] = "WF"]
    ELSE status

\* the last work day becomes WF, or SWF when it is also the first
FinishMark(status, lastWorkDay) ==
    IF lastWorkDay >= 0 /\ status[lastWorkDay + 1] # "SW"
    THEN [status EXCEPT ![lastWorkDay + 1] = "WF"]
    ELSE IF lastWorkDay >= 0
         THEN [status EXCEPT ![lastWorkDay + 1] = "SWF"]
         ELSE status

ClearAfterKeepHold(status, lastWorkDay) == status

\* for (i = lastWorkDay + 1; i < status.length; i++) status[i] = ""
ClearAfter(status, lastWorkDay) ==
    [i \in 1..Len(status) |-> IF i - 1 >= lastWorkDay + 1 THEN "" ELSE status[i]]

\* one row of the DOOD matrix
DoodStatus(days, char) ==
    LET d == ScanDays(days, char, 0,
                 [status |-> <<>>, hasStarted |-> FALSE, lastWorkDay |-> 0 - 1])
    IN  ClearAfter(FinishMark(d.status, d.lastWorkDay), d.lastWorkDay)

WorkDaysWithHold(statuses) ==
    Cardinality({i \in 1..Len(statuses) : statuses[i] \in {"W", "SW", "WF", "SWF", "H"}})

\* statuses.filter(s => ["W", "SW", "WF", "SWF"].includes(s)).length
WorkDays(statuses) ==
    Cardinality({i \in 1..Len(statuses) : statuses[i] \in {"W", "SW", "WF", "SWF"}})

\* the reports are rendered only for a schedule with at least one strip
HasStrips(sched) == Len(sched.stripSlots) > 0

ShootingScheduleReport ==
    /\ report.kind = "none"
    /\ HasStrips(schedule)
    /\ report' = [NoReport EXCEPT !.kind = "shooting", !.days = GroupByDay(schedule)]
    /\ UNCHANGED <<strips, nextStrip, dayBreaks, nextBreak, pc, req, tx, base, schedule,
                   pageCount, startDate, sheets>>

generateShootingSchedulePDF ==
    /\ report.kind = "none"
    /\ HasStrips(schedule)
    /\ report' = [NoReport EXCEPT !.kind = "shootingPDF", !.days = GroupByDay(schedule)]
    /\ UNCHANGED <<strips, nextStrip, dayBreaks, nextBreak, pc, req, tx, base, schedule,
                   pageCount, startDate, sheets>>

DayOutOfDaysReport ==
    /\ report.kind = "none"
    /\ HasStrips(schedule)
    /\ LET days == DoodDays(schedule)
           statuses == DoodStatus(days, Member)
       IN  report' = [kind |-> "dood", days |-> days, statuses |-> statuses,
                      workDays |-> WorkDays(statuses)]
    /\ UNCHANGED <<strips, nextStrip, dayBreaks, nextBreak, pc, req, tx, base, schedule,
                   pageCount, startDate, sheets>>

generateDOODPDF ==
    /\ report.kind = "none"
    /\ HasStrips(schedule)
    /\ LET days == DoodDays(schedule)
           statuses == DoodStatus(days, Member)
       IN  report' = [kind |-> "doodPDF", days |-> days, statuses |-> statuses,
                      workDays |-> WorkDays(statuses)]
    /\ UNCHANGED <<strips, nextStrip, dayBreaks, nextBreak, pc, req, tx, base, schedule,
                   pageCount, startDate, sheets>>

----------------------------------------------------------------------------
(* The strip board (StripBoardTab) and the production calendar: what they  *)
(* show of the same schedule object.                                       *)

\* shootDateMap.get(dayBreak.dayNumber): the map holds, for every day
\* break, formatShootDate(addDays(startDate, db.dayNumber - 1)) under its
\* dayNumber, and nothing when there is no start date
BoardShootDate(sched, dayNumber) ==
    IF sched.startDate = NoDate THEN NoShootDate
    ELSE formatShootDate(addDays(parseLocalDate(sched.startDate), dayNumber - 1))

\* dayBreakMap.get(strip.position)
BoardDayBreak(sched, position) ==
    CHOOSE db \in sched.dayBreaks : db.afterPosition = position

\* renderSchedule: the END OF DAY rows, in the order of the strips they follow
RECURSIVE renderSchedule(_, _)
renderSchedule(sched, i) ==
    IF i > Len(sched.stripSlots) THEN <<>>
    ELSE IF DayBreakAfter(sched, sched.stripSlots[i])
         THEN LET dayBreak == BoardDayBreak(sched, sched.stripSlots[i].position)
              IN  <<[afterPosition |-> dayBreak.afterPosition,
                     dayNumber |-> dayBreak.dayNumber,
                     shootDate |-> BoardShootDate(sched, dayBreak.dayNumber)]>>
                      \o renderSchedule(sched, i + 1)
         ELSE renderSchedule(sched, i + 1)

\* dayBreaks.length + (strips.length > 0 ? 1 : 0), the header's day count
totalDays(sched) ==
    Cardinality(sched.dayBreaks) + (IF Len(sched.stripSlots) > 0 THEN 1 ELSE 0)

\* calendarMap: one shoot day per date, dayBreaks.length + 1 dates from the
\* start date on, none without a start date
RECURSIVE CalendarFrom(_, _, _)
CalendarFrom(currentDate, day, lastDay) ==
    IF day > lastDay THEN {}
    ELSE {[date |-> currentDate, shootDayNumber |-> day]}
             \cup CalendarFrom(addDays(currentDate, 1), day + 1, lastDay)

calendarMap(sched) ==
    IF sched.startDate = NoDate THEN {}
    ELSE CalendarFrom(parseLocalDate(sched.startDate), 1,
                      Cardinality(sched.dayBreaks) + 1)

\* the Reports tab's shooting schedule, empty when there is no strip
ReportDays(sched) == IF HasStrips(sched) THEN GroupByDay(sched) ELSE <<>>

\* a client fetches the schedule and looks at the strip board, the
\* calendar and the shooting schedule
ViewSchedule ==
    /\ \A p \in Procs : NotRunning(p)
    /\ report.kind = "none"
    /\ schedule' = GetSchedule
    /\ report' = [kind |-> "views",
                  days |-> ReportDays(GetSchedule),
                  rows |-> renderSchedule(GetSchedule, 1),
                  totalDays |-> totalDays(GetSchedule),
                  shootDays |-> calendarMap(GetSchedule)]
    /\ UNCHANGED <<strips, nextStrip, dayBreaks, nextBreak, pc, req, tx, base,
                   pageCount, startDate, sheets>>

----------------------------------------------------------------------------
(* Page counts: text such as "1 2/8" and numbers of pages.  Text is a      *)
(* sequence of characters.                                                 *)

DigitChars == <<"0", "1", "2", "3", "4", "5", "6", "7", "8", "9">>

IsDigit(c) == \E v \in 1..10 : DigitChars[v] = c

DigitValue(c) == (CHOOSE v \in 1..10 : DigitChars[v] = c) - 1

\* Number.prototype.toString of a non-negative integer
RECURSIVE toString(_)
toString(n) ==
    IF n < 10 THEN <<DigitChars[n + 1]>>
    ELSE toString(n \div 10) \o <<DigitChars[(n % 10) + 1]>>

RECURSIVE DecimalValue(_)
DecimalValue(s) ==
    IF Len(s) = 0 THEN 0
    ELSE DecimalValue(SubSeq(s, 1, Len(s) - 1)) * 10 + DigitValue(s[Len(s)])

\* Number(string): the empty string is 0, decimal digits are their value,
\* anything else over the characters used here is NaN
Number(s) ==
    IF Len(s) = 0 THEN Num(0, 1)
    ELSE IF \A i \in 1..Len(s) : IsDigit(s[i]) THEN Num(DecimalValue(s), 1)
    ELSE NaN

\* String.prototype.trim
RECURSIVE trim(_)
trim(s) ==
    IF Len(s) > 0 /\ s[1] = " " THEN trim(Tail(s))
    ELSE IF Len(s) > 0 /\ s[Len(s)] = " " THEN trim(SubSeq(s, 1, Len(s) - 1))
    ELSE s

\* String.prototype.split(separator): the pieces between the separators,
\* empty pieces included
RECURSIVE split(_, _)
split(s, separator) ==
    IF \A i \in 1..Len(s) : s[i] # separator THEN <<s>>
    ELSE LET k == CHOOSE i \in 1..Len(s) :
                      s[i] = separator /\ \A j \in 1..(i - 1) : s[j] # separator
         IN  <<SubSeq(s, 1, k - 1)>> \o split(SubSeq(s, k + 1, Len(s)), separator)

\* part.includes("/")
includes(s, c) == \E i \in 1..Len(s) : s[i] = c

\* a / b
Divide(a, b) ==
    IF a.kind = "NaN" \/ b.kind = "NaN" THEN NaN
    ELSE IF a.kind = "Infinity" THEN (IF b.kind = "Infinity" THEN NaN ELSE Infinity)
    ELSE IF b.kind = "Infinity" THEN Num(0, 1)
    ELSE IF b.n = 0 THEN (IF a.n = 0 THEN NaN ELSE Infinity)
    ELSE Num(a.n * b.d, a.d * b.n)

\* a + b
Plus(a, b) ==
    IF a.kind = "NaN" \/ b.kind = "NaN" THEN NaN
    ELSE IF a.kind = "Infinity" \/ b.kind = "Infinity" THEN Infinity
    ELSE Num(a.n * b.d + b.n * a.d, a.d * b.d)

\* a || 0
OrZero(a) == IF a.kind = "NaN" \/ (a.kind = "num" /\ a.n = 0) THEN Num(0, 1) ELSE a

FractionInverted(part) ==
    LET pieces == split(part, "/")
    IN  Divide(Number(pieces[2]), Number(pieces[1]))

\* const [num, denom] = part.split("/").map(Number); num / denom
Fraction(part) ==
    LET pieces == split(part, "/")
    IN  Divide(Number(pieces[1]), Number(pieces[2]))

\* for (const part of parts): total += ...
RECURSIVE SumParts(_, _, _)
SumParts(parts, i, total) ==
    IF i > Len(parts) THEN total
    ELSE SumParts(parts, i + 1,
             IF includes(parts[i], "/")
             THEN Plus(total, Fraction(parts[i]))
             ELSE Plus(total, OrZero(Number(parts[i]))))

parsePageCount(text) ==
    IF text = NoText \/ Len(text) = 0 THEN Num(0, 1)
    ELSE SumParts(split(trim(text), " "), 1, Num(0, 1))

\* Math.floor(pages) of a fraction
Floor(pages) == pages.n \div pages.d

\* Math.round((pages - whole) * 8): the nearest integer, halves upwards
RoundEighths(pages) == (16 * (pages.n % pages.d) + pages.d) \div (2 * pages.d)

formatPageCount(pages) ==
    LET whole == Floor(pages)
        eighths == RoundEighths(pages)
    IN  IF eighths = 0 THEN toString(whole)
        ELSE IF whole = 0 THEN toString(eighths) \o <<"/", "8">>
        ELSE toString(whole) \o <<" ">> \o toString(eighths) \o <<"/", "8">>

\* a number of pages is rendered as text
FormatPageCount ==
    /\ pageCount.step = "number"
    /\ pageCount' = [pageCount EXCEPT !.step = "formatted",
                                      !.text = formatPageCount(pageCount.pages)]
    /\ UNCHANGED <<strips, nextStrip, dayBreaks, nextBreak, pc, req, tx, base,
                   schedule, report, startDate, sheets>>

\* a page-count text, entered or rendered, is read as a number
ParsePageCount ==
    /\ pageCount.step \in {"text", "formatted"}
    /\ pageCount' = [pageCount EXCEPT
                         !.step = IF pageCount.step = "text" THEN "parsed"
                                  ELSE "reparsed",
                         !.total = parsePageCount(pageCount.text)]
    /\ UNCHANGED <<strips, nextStrip, dayBreaks, nextBreak, pc, req, tx, base,
                   schedule, report, startDate, sheets>>

\* the strip board renders a total it summed from parsed page counts
FormatTotal ==
    /\ pageCount.step = "parsed"
    /\ pageCount.total.kind = "num"
    /\ pageCount' = [pageCount EXCEPT !.step = "rendered",
                                      !.text = formatPageCount(pageCount.total)]
    /\ UNCHANGED <<strips, nextStrip, dayBreaks, nextBreak, pc, req, tx, base,
                   schedule, report, startDate, sheets>>

----------------------------------------------------------------------------
(* Clients.                                                                *)

\* every other request has completed
Sequential(p) == \A q \in Procs \ {p} : NotRunning(q)

\* a schedule of n strips built by n scene creations, one after the other
DenseStrips(n) == [s \in StripIds |-> IF s <= n THEN s ELSE NoRow]

InitIdle ==
    /\ pc = [p \in Procs |-> "idle"]
    /\ req = [p \in Procs |-> NoReq]
    /\ tx = [p \in Procs |-> NoTx]

InitRequests ==
    /\ InitIdle
    /\ schedule = NoSchedule
    /\ report = NoReport
    /\ pageCount = NoPageCount
    /\ startDate = NoDate

InitStrips ==
    /\ \E n \in 0..MaxStrips : strips = DenseStrips(n) /\ nextStrip = n + 1
    /\ sheets = Present(strips)
    /\ dayBreaks = {}
    /\ nextBreak = 1
    /\ InitRequests
    /\ base = Snapshot

\* the schedule as created with its project: no strip, no day break
InitEmpty ==
    /\ strips = DenseStrips(0)
    /\ sheets = {}
    /\ nextStrip = 1
    /\ dayBreaks = {}
    /\ nextBreak = 1
    /\ InitRequests
    /\ base = Snapshot

\* reorder calls, each completing before the next starts
SeqReorder ==
    \E p \in Procs, stripId \in RequestIds, newPosition \in RequestPositions :
        /\ Sequential(p)
        /\ ReorderFindStrip(p, stripId, newPosition)
        /\ base' = Snapshot

ReorderRun == \E p \in Procs : ReorderStep(p)

Returns == \E p \in Procs : Return(p)

NextReorderSeq == SeqReorder \/ ReorderRun \/ Returns

\* scene creations and removals, each completing before the next starts
SeqCreate ==
    \E p \in Procs :
        /\ Sequential(p)
        /\ CreateAggregate(p)
        /\ base' = Snapshot

SeqDelete ==
    \E p \in Procs, bdId \in RequestIds :
        /\ Sequential(p)
        /\ DeleteFind(p, bdId)
        /\ base' = Snapshot

SceneRun == \E p \in Procs : SceneStep(p)

NextScenesSeq == SeqCreate \/ SeqDelete \/ SceneRun \/ Returns

SpecScenesSeq == InitEmpty /\ [][NextScenesSeq]_vars

\* scene creations and removals sent without waiting for one another
ConcCreate == \E p \in Procs : CreateAggregate(p) /\ UNCHANGED base

ConcDelete ==
    \E p \in Procs, bdId \in RequestIds : DeleteFind(p, bdId) /\ UNCHANGED base

NextScenesConc == ConcCreate \/ ConcDelete \/ SceneRun \/ Returns

SpecScenesConc == InitEmpty /\ [][NextScenesConc]_vars

\* day-break toggles and renumberings, each completing before the next starts
SeqToggle ==
    \E p \in Procs, afterPosition \in RequestAfter :
        /\ Sequential(p)
        /\ ToggleFind(p, afterPosition)
        /\ base' = Snapshot

SeqRenumber ==
    \E p \in Procs :
        /\ Sequential(p)
        /\ RenumberFetch(p)
        /\ base' = Snapshot

DayBreakRun == \E p \in Procs : DayBreakStep(p)

NextDayBreaksSeq == SeqToggle \/ SeqRenumber \/ DayBreakRun \/ Returns

SpecDayBreaksSeq == InitEmpty /\ [][NextDayBreaksSeq]_vars

\* a schedule whose day breaks were toggled on one after the other, in
\* ascending afterPosition order: ids and dayNumbers follow that order
ToggledInOrder(S) ==
    {[id |-> Cardinality({x \in S : x <= a}),
      afterPosition |-> a,
      dayNumber |-> Cardinality({x \in S : x <= a})] : a \in S}

InitBreaks ==
    /\ strips = DenseStrips(0)
    /\ sheets = {}
    /\ nextStrip = 1
    /\ \E S \in SUBSET (0..MaxAfter) :
          /\ Cardinality(S) <= MaxBreaks
          /\ dayBreaks = ToggledInOrder(S)
          /\ nextBreak = Cardinality(S) + 1
    /\ InitRequests
    /\ base = Snapshot

\* day-break toggles and renumberings sent without waiting for one another,
\* one per client
ConcToggle ==
    \E p \in Procs, afterPosition \in RequestAfter :
        ToggleFind(p, afterPosition) /\ UNCHANGED base

ConcRenumber == \E p \in Procs : RenumberFetch(p) /\ UNCHANGED base

NextDayBreaksConc == ConcToggle \/ ConcRenumber \/ DayBreakRun

SpecDayBreaksConc == InitBreaks /\ [][NextDayBreaksConc]_vars

\* one client calling toggleDayBreak twice with the same afterPosition, or
\* renumberDayBreaks twice, with nothing in between
ToggleTwice == \E p \in Procs : ToggleAgain(p) /\ UNCHANGED base

RenumberTwice == \E p \in Procs : RenumberAgain(p) /\ base' = Snapshot

NextDayBreaksTwice ==
    SeqToggle \/ SeqRenumber \/ ToggleTwice \/ RenumberTwice \/ DayBreakRun \/ Returns

SpecDayBreaksTwice == InitBreaks /\ [][NextDayBreaksTwice]_vars

\* strip-board clients clicking day-break buttons without waiting for one
\* another: each click is a toggle request followed by a renumber request
ToggleThenRenumber == \E p \in Procs : RenumberAfterToggle(p)

NextToggleRenumber == ConcToggle \/ ToggleThenRenumber \/ DayBreakRun

SpecToggleRenumber == InitBreaks /\ [][NextToggleRenumber]_vars

\* reorder requests sent without waiting for one another, one per client
ConcReorder ==
    \E p \in Procs, stripId \in RequestIds, newPosition \in RequestPositions :
        /\ ReorderFindStrip(p, stripId, newPosition)
        /\ UNCHANGED base

NextReorderConc == ConcReorder \/ ReorderRun

SpecReorderConc == InitStrips /\ [][NextReorderConc]_vars

SpecReorderSeq == InitStrips /\ [][NextReorderSeq]_vars

\* ids of day breaks a client can send: every DayBreak id and one more
RequestBreakIds == 1..(MaxBreaks + 1)

SeqDeleteBreak ==
    \E p \in Procs, dbId \in RequestBreakIds :
        /\ Sequential(p)
        /\ DeleteBreakFind(p, dbId)
        /\ base' = Snapshot

DeleteBreakRun == \E p \in Procs : DeleteBreakDelete(p)

\* day-break toggles, removals and renumberings sent without waiting for one
\* another, one per client
ConcDeleteBreak ==
    \E p \in Procs, dbId \in RequestBreakIds :
        DeleteBreakFind(p, dbId) /\ UNCHANGED base

NextDayBreaksAll ==
    ConcToggle \/ ConcRenumber \/ ConcDeleteBreak \/ DayBreakRun \/ DeleteBreakRun

SpecDayBreaksAll == InitBreaks /\ [][NextDayBreaksAll]_vars

\* every operation on the board, one request at a time
NextBoardSeq ==
    \/ SeqCreate \/ SeqDelete \/ SceneRun
    \/ SeqReorder \/ ReorderRun
    \/ SeqToggle \/ SeqRenumber \/ DayBreakRun
    \/ SeqDeleteBreak \/ DeleteBreakRun
    \/ Returns

SpecBoardSeq == InitEmpty /\ [][NextBoardSeq]_vars

\* the strip board's day-break button under a strip: a toggle at the position
\* of a strip the board shows
ButtonToggle ==
    \E p \in Procs, afterPosition \in Positions(strips) :
        /\ Sequential(p)
        /\ ToggleFind(p, afterPosition)
        /\ base' = Snapshot

\* the board worked through the strip board only, one request at a time
NextBoardButtons ==
    \/ SeqCreate \/ SeqDelete \/ SceneRun
    \/ SeqReorder \/ ReorderRun
    \/ ButtonToggle \/ SeqRenumber \/ DayBreakRun
    \/ Returns

SpecBoardButtons == InitEmpty /\ [][NextBoardButtons]_vars

\* start dates a schedule can have, as the schedule object carries them
StartDates ==
    {[datePart |-> <<2024, 2, 27>>, timePart |-> "00:00:00.000Z"],
     [datePart |-> <<2024, 12, 29>>, timePart |-> "00:00:00.000Z"],
     [datePart |-> <<2025, 2, 26>>, timePart |-> "00:00:00.000Z"]}

\* a schedule with strips, day breaks toggled one after the other and a
\* start date or none
InitBoard ==
    /\ \E n \in 0..MaxStrips : strips = DenseStrips(n) /\ nextStrip = n + 1
    /\ sheets = Present(strips)
    /\ \E S \in SUBSET (0..MaxAfter) :
          /\ Cardinality(S) <= MaxBreaks
          /\ dayBreaks = ToggledInOrder(S)
          /\ nextBreak = Cardinality(S) + 1
    /\ startDate \in StartDates \cup {NoDate}
    /\ InitIdle
    /\ schedule = NoSchedule
    /\ report = NoReport
    /\ pageCount = NoPageCount
    /\ base = Snapshot

\* the date input of the strip board: a day, or null when cleared
RequestDates ==
    {[datePart |-> d.datePart, timePart |-> ""] : d \in StartDates} \cup {NoDate}

SeqSetStartDate ==
    \E p \in Procs, date \in RequestDates :
        /\ Sequential(p)
        /\ SetStartDate(p, date)
        /\ base' = Snapshot

NextStartDate == SeqSetStartDate \/ Returns

SpecStartDate == InitBoard /\ [][NextStartDate]_vars

\* scene creations and removals sent without waiting for one another, one
\* per client, to a schedule that has strips already
NextScenesOnce == ConcCreate \/ ConcDelete \/ SceneRun

SpecScenesOnce == InitStrips /\ [][NextScenesOnce]_vars

\* day breaks are toggled and renumbered, one request at a time, until a
\* client opens the schedule
Unviewed == report.kind = "none"

EditToggle == Unviewed /\ SeqToggle

EditRenumber == Unviewed /\ SeqRenumber

NextBoardView ==
    EditToggle \/ EditRenumber \/ DayBreakRun \/ Returns \/ ViewSchedule

SpecBoardView == InitBoard /\ [][NextBoardView]_vars

\* reorders, one at a time, of a schedule that has day breaks
InitBoardUndated == InitBoard /\ startDate = NoDate

NextReorderBoard == SeqReorder \/ ReorderRun \/ Returns

SpecReorderBoard == InitBoardUndated /\ [][NextReorderBoard]_vars

\* one request of any caller to any mutating route; `base` also keeps who
\* sent it
SnapshotBy(caller) ==
    [strips |-> strips, dayBreaks |-> dayBreaks, startDate |-> startDate,
     nextStrip |-> nextStrip, nextBreak |-> nextBreak, caller |-> caller]

InitAccess ==
    /\ \E n \in 0..MaxStrips : strips = DenseStrips(n) /\ nextStrip = n + 1
    /\ sheets = Present(strips)
    /\ \E S \in SUBSET (0..MaxAfter) :
          /\ Cardinality(S) <= MaxBreaks
          /\ dayBreaks = ToggledInOrder(S)
          /\ nextBreak = Cardinality(S) + 1
    /\ startDate \in StartDates \cup {NoDate}
    /\ InitIdle
    /\ schedule = NoSchedule
    /\ report = NoReport
    /\ pageCount = NoPageCount
    /\ base = SnapshotBy("owner")

\* the one request of a behaviour, in the first request slot
FirstRequest(p) == p = 1 /\ \A q \in Procs : NotRunning(q)

AccessReorder ==
    \E p \in Procs, caller \in Callers, stripId \in RequestIds,
       newPosition \in RequestPositions :
        /\ FirstRequest(p)
        /\ IF GateStatus(caller) # 0
           THEN Reject(p, "reorder", GateStatus(caller))
           ELSE ReorderFindStrip(p, stripId, newPosition)
        /\ base' = SnapshotBy(caller)

AccessToggle ==
    \E p \in Procs, caller \in Callers, afterPosition \in RequestAfter :
        /\ FirstRequest(p)
        /\ IF GateStatus(caller) # 0
           THEN Reject(p, "toggle", GateStatus(caller))
           ELSE ToggleFind(p, afterPosition)
        /\ base' = SnapshotBy(caller)

AccessRenumber ==
    \E p \in Procs, caller \in Callers :
        /\ FirstRequest(p)
        /\ IF GateStatus(caller) # 0
           THEN Reject(p, "renumber", GateStatus(caller))
           ELSE RenumberFetch(p)
        /\ base' = SnapshotBy(caller)

AccessDeleteBreak ==
    \E p \in Procs, caller \in Callers, dbId \in RequestBreakIds :
        /\ FirstRequest(p)
        /\ IF GateStatus(caller) # 0
           THEN Reject(p, "deleteDayBreak", GateStatus(caller))
           ELSE DeleteBreakFind(p, dbId)
        /\ base' = SnapshotBy(caller)

AccessSetStartDate ==
    \E p \in Procs, caller \in Callers, date \in RequestDates :
        /\ FirstRequest(p)
        /\ IF GateStatus(caller) # 0
           THEN Reject(p, "setStartDate", GateStatus(caller)) /\ UNCHANGED startDate
           ELSE SetStartDate(p, date)
        /\ base' = SnapshotBy(caller)

AccessCreate ==
    \E p \in Procs, caller \in Callers :
        /\ FirstRequest(p)
        /\ IF GateStatus(caller) # 0
           THEN Reject(p, "create", GateStatus(caller))
           ELSE CreateAggregate(p)
        /\ base' = SnapshotBy(caller)

AccessDelete ==
    \E p \in Procs, caller \in Callers, bdId \in RequestIds :
        /\ FirstRequest(p)
        /\ IF GateStatus(caller) # 0
           THEN Reject(p, "delete", GateStatus(caller))
           ELSE DeleteFind(p, bdId)
        /\ base' = SnapshotBy(caller)

NextAccess ==
    \/ AccessReorder \/ AccessToggle \/ AccessRenumber \/ AccessDeleteBreak
    \/ AccessSetStartDate \/ AccessCreate \/ AccessDelete
    \/ ReorderRun \/ SceneRun \/ DayBreakRun \/ DeleteBreakRun

SpecAccess == InitAccess /\ [][NextAccess]_vars

\* the Reports tab given a schedule object: its strip slots in position
\* order with or without the member in the scene's cast, its day breaks
\* (afterPosition 0 and one past the last strip included), its start date
MaxSlots == 5

SlotsWith(n, W) ==
    [i \in 1..n |-> [position |-> i, cast |-> IF i \in W THEN {Member} ELSE {}]]

InitReports ==
    /\ strips = DenseStrips(0)
    /\ sheets = {}
    /\ nextStrip = 1
    /\ dayBreaks = {}
    /\ nextBreak = 1
    /\ InitIdle
    /\ startDate = NoDate
    /\ base = Snapshot
    /\ \E n \in 0..MaxSlots :
          \E W \in SUBSET (1..n), S \in SUBSET (0..(n + 1)),
             date \in StartDates \cup {NoDate} :
              /\ Cardinality(S) <= MaxBreaks
              /\ schedule = [stripSlots |-> SlotsWith(n, W),
                             dayBreaks |-> ToggledInOrder(S),
                             startDate |-> date]
    /\ report = NoReport
    /\ pageCount = NoPageCount

NextReports ==
    \/ ShootingScheduleReport
    \/ generateShootingSchedulePDF
    \/ DayOutOfDaysReport
    \/ generateDOODPDF

SpecReports == InitReports /\ [][NextReports]_vars

\* page counts in eighths of a page, and page-count texts of breakdown sheets
MaxEighths == 88

PageCountTexts ==
    {NoText, <<>>, <<"0">>, <<"3", "/", "8">>, <<"1", " ", "2", "/", "8">>,
     <<"2">>, <<" ", "1", "2", " ", "7", "/", "8", " ">>, <<"4", "/", "8">>,
     <<"x">>, <<"1", " ", "x">>, <<"1", " ", " ", "2">>,
     <<"1", "/", "0">>, <<"0", "/", "0">>, <<"x", "/", "8">>,
     <<"1", " ", "2", "/", "x">>, <<"3", "/">>, <<"1", "/", "2", "/", "4">>,
     <<"1", "/", "3">>, <<"2", "/", "3">>, <<"1", "/", "1", "6">>,
     <<"1", "5", "/", "1", "6">>, <<"1", " ", "1", "5", "/", "1", "6">>,
     <<"2", " ", "9", "9", "/", "1", "0", "0">>}

InitPageCount ==
    /\ strips = DenseStrips(0)
    /\ sheets = {}
    /\ nextStrip = 1
    /\ dayBreaks = {}
    /\ nextBreak = 1
    /\ InitIdle
    /\ startDate = NoDate
    /\ base = Snapshot
    /\ schedule = NoSchedule
    /\ report = NoReport
    /\ \/ \E k \in 0..MaxEighths :
              pageCount = [NoPageCount EXCEPT !.step = "number", !.pages = Num(k, 8)]
       \/ \E text \in PageCountTexts :
              pageCount = [NoPageCount EXCEPT !.step = "text", !.text = text]

NextPageCount == FormatPageCount \/ ParsePageCount \/ FormatTotal

SpecPageCount == InitPageCount /\ [][NextPageCount]_vars

----------------------------------------------------------------------------
(* Properties of reorder, one call at a time.                              *)

Dense(v) ==
    /\ Positions(v) = 1..Count(v)
    /\ \A s, t \in Present(v) : s # t => v[s] # v[t]

ReorderDone(p) == pc[p] = "done" /\ req[p].kind = "reorder"

KnownStrip(p) ==
    req[p].stripId \in StripIds /\ base.strips[req[p].stripId] # NoRow

InRange(p) == req[p].newPosition \in 1..Count(base.strips)

\* C1: with reorder calls made one after the other, accepted or rejected,
\* the committed positions of the N strips are exactly 1..N, without gaps
\* and without duplicates.
C1_PositionsDense == Dense(strips) /\ Count(strips) = Count(base.strips)

C1_Witness ==
    \E p \in Procs :
        /\ ReorderDone(p) /\ req[p].status = 200
        /\ strips # base.strips
        /\ Count(strips) = MaxStrips

\* C2: a reorder of an existing strip from oldPosition to a newPosition in
\* [1, N] succeeds; moving later, the strips in (oldPosition, newPosition]
\* are one earlier; moving earlier, the strips in [newPosition, oldPosition)
\* are one later; the moved strip is at newPosition; all others, and all of
\* them when newPosition = oldPosition, are where they were.
C2_ReorderResult ==
    \A p \in Procs :
        (ReorderDone(p) /\ KnownStrip(p) /\ InRange(p) /\ req[p].status # 500) =>
            LET old == base.strips[req[p].stripId]
                new == req[p].newPosition
            IN  /\ req[p].status = 200
                /\ \A s \in StripIds :
                     LET was == base.strips[s]
                     IN  strips[s] =
                            IF was = NoRow THEN NoRow
                            ELSE IF s = req[p].stripId THEN new
                            ELSE IF new > old /\ was > old /\ was <= new THEN was - 1
                            ELSE IF new < old /\ was >= new /\ was < old THEN was + 1
                            ELSE was

C2_Witness ==
    \E p \in Procs :
        /\ ReorderDone(p) /\ req[p].status = 200
        /\ req[p].newPosition + 1 < base.strips[req[p].stripId]

----------------------------------------------------------------------------
(* Properties of concurrent reorders.                                      *)

\* the positions a whole reorder call leaves when nothing runs beside it
ReorderAlone(v, stripId, newPosition) ==
    IF \/ newPosition < 1
       \/ stripId \notin StripIds
       \/ v[stripId] = NoRow
       \/ v[stripId] = newPosition
       \/ newPosition > Count(v)
    THEN v
    ELSE [s \in StripIds |->
            IF v[s] = NoRow THEN NoRow
            ELSE IF s = stripId THEN newPosition
            ELSE IF newPosition > v[stripId] /\ v[s] > v[stripId] /\ v[s] <= newPosition
            THEN v[s] - 1
            ELSE IF newPosition < v[stripId] /\ v[s] >= newPosition /\ v[s] < v[stripId]
            THEN v[s] + 1
            ELSE v[s]]

OneAfterTheOther(v, p, q) ==
    ReorderAlone(ReorderAlone(v, req[p].stripId, req[p].newPosition),
                 req[q].stripId, req[q].newPosition)

\* C3: two reorder requests issued concurrently leave the positions that
\* running them one after the other, in one of the two orders, would leave,
\* and these are exactly 1..N.
C3_ReordersSerialize ==
    \A p, q \in Procs :
        (p # q /\ ReorderDone(p) /\ ReorderDone(q)
             /\ req[p].status # 500 /\ req[q].status # 500
             /\ \A o \in Procs \ {p, q} : pc[o] = "idle") =>
            /\ strips \in {OneAfterTheOther(base.strips, p, q),
                           OneAfterTheOther(base.strips, q, p)}
            /\ Dense(strips)

\* C4: the shift and the placement of a reorder become visible together:
\* the committed positions do not change when the shift is written, nor
\* when the transaction fails after it; they change only at the commit,
\* where the moved strip is at newPosition and every shifted strip has its
\* shifted position.
C4_AllOrNothing ==
    [][/\ \A p \in Procs :
          /\ (pc[p] = "reorderShift" /\ pc'[p] = "reorderPlace") => strips' = strips
          /\ (pc[p] = "reorderPlace" /\ pc'[p] = "done" /\ req'[p].status = 500)
                 => strips' = strips
          /\ (pc[p] = "reorderPlace" /\ pc'[p] = "done" /\ req'[p].status = 200) =>
                 /\ strips'[req[p].stripId] = req[p].newPosition
                 /\ \A s \in StripIds \ {req[p].stripId} :
                        strips'[s] = IF tx[p][s] # NoWrite THEN tx[p][s] ELSE strips[s]
      /\ (strips' # strips =>
             \E p \in Procs : pc[p] = "reorderPlace" /\ pc'[p] = "done")
      ]_vars

\* a shift is written and uncommitted while another request reads the table
C4_Witness ==
    \E p, q \in Procs :
        /\ p # q
        /\ pc[p] = "reorderPlace"
        /\ \E s \in StripIds : tx[p][s] # NoWrite
        /\ pc[q] = "reorderMax"

----------------------------------------------------------------------------
(* Properties of scene creation and removal.                               *)

DeleteDone(p) == pc[p] = "done" /\ req[p].kind = "delete" /\ req[p].status = 200

\* C5: removing the scene whose strip is at position p of N deletes that
\* strip, moves every strip after p one position earlier, leaves the strips
\* before p where they were, and leaves N-1 strips at positions 1..N-1 in
\* the same relative order.
C5_RemoveCloses ==
    \A p \in Procs :
        DeleteDone(p) =>
            LET was == base.strips
                pos == was[req[p].bdId]
            IN  /\ strips[req[p].bdId] = NoRow
                /\ \A s \in StripIds \ {req[p].bdId} :
                       strips[s] = IF was[s] > pos THEN was[s] - 1 ELSE was[s]
                /\ Count(strips) = Count(was) - 1
                /\ Positions(strips) = 1..(Count(was) - 1)
                /\ \A s, t \in Present(strips) :
                       (was[s] < was[t]) <=> (strips[s] < strips[t])

C5_Witness ==
    \E p \in Procs :
        /\ DeleteDone(p)
        /\ base.strips[req[p].bdId] = 2
        /\ Count(base.strips) = MaxStrips

\* C6: whatever the interleaving of concurrent scene creations and
\* removals, no two strips share a position and the positions of the N
\* strips are exactly 1..N.
C6_AppendDense == Dense(strips)

----------------------------------------------------------------------------
(* Properties of the day breaks.                                           *)

ToggleDone(p) == pc[p] = "done" /\ req[p].kind = "toggle"

\* C8: a toggle at an afterPosition >= 0 that holds a day break deletes it
\* and answers "deleted" with the removed record; otherwise it creates
\* exactly one day break there, numbered one above the largest dayNumber
\* of the schedule (1 when there is none), and answers "created"; every
\* other day break keeps its dayNumber.
C8_ToggleResult ==
    \A p \in Procs :
        (ToggleDone(p) /\ req[p].afterPosition >= 0) =>
            LET was == base.dayBreaks
                at == BreakAt(was, req[p].afterPosition)
            IN  IF at # {}
                THEN /\ req[p].status = 200
                     /\ req[p].action = "deleted"
                     /\ at = {req[p].existingDayBreak}
                     /\ dayBreaks = was \ at
                ELSE /\ req[p].status = 201
                     /\ req[p].action = "created"
                     /\ req[p].newDayBreak.afterPosition = req[p].afterPosition
                     /\ req[p].newDayBreak.dayNumber =
                            IF was = {} THEN 1 ELSE MaxDayNumber(was) + 1
                     /\ req[p].newDayBreak.id \notin BreakIdsOf(was)
                     /\ dayBreaks = was \cup {req[p].newDayBreak}

\* a break is created while the largest dayNumber exceeds the number of breaks
C8_Witness ==
    \E p \in Procs :
        /\ ToggleDone(p)
        /\ req[p].action = "created"
        /\ req[p].newDayBreak.dayNumber > Cardinality(dayBreaks)

\* C9: in every state, whatever the interleaving of toggle requests, a
\* schedule has at most one day break per afterPosition.
C9_OneBreakPerPosition ==
    \A a, b \in dayBreaks : a.afterPosition = b.afterPosition => a = b

\* two toggles raced to create at one position and the second insert failed
C9_Witness ==
    \E p \in Procs :
        /\ ToggleDone(p)
        /\ req[p].status = 500
        /\ req[p].nextDayNumber > 0
        /\ BreakAt(dayBreaks, req[p].afterPosition) # {}

RenumberDone(p) == pc[p] = "done" /\ req[p].kind = "renumber" /\ req[p].status = 200

\* C10: after a renumbering of B day breaks, the day breaks in ascending
\* afterPosition order carry the dayNumbers 1, 2, ..., B, and the set of
\* afterPositions is the one before the call.
C10_RenumberRanks ==
    \A p \in Procs :
        RenumberDone(p) =>
            /\ \A b \in dayBreaks :
                   b.dayNumber =
                      1 + Cardinality({c \in dayBreaks : c.afterPosition < b.afterPosition})
            /\ {b.dayNumber : b \in dayBreaks} = 1..Cardinality(dayBreaks)
            /\ {b.afterPosition : b \in dayBreaks} =
                   {b.afterPosition : b \in base.dayBreaks}
            /\ Cardinality(dayBreaks) = Cardinality(base.dayBreaks)

\* a renumbering changed the dayNumbers of at least two breaks
C10_Witness ==
    \E p \in Procs :
        /\ RenumberDone(p)
        /\ Cardinality(dayBreaks) >= 2
        /\ dayBreaks \cap base.dayBreaks = {}

\* the dayNumbers, in ascending afterPosition order, are 1, 2, ..., B
Ranked(rows) ==
    \A b \in rows :
        b.dayNumber = 1 + Cardinality({c \in rows : c.afterPosition < b.afterPosition})

\* C11: a toggle and the renumbering that follows it take effect together:
\* no committed state of the day breaks, during or after the clicks, has
\* dayNumbers other than 1, 2, ..., B in afterPosition order.
C11_ToggleRenumberAtomic == Ranked(dayBreaks)

\* the part of C11 about the end: every client has finished both requests
C11_RankedWhenFinished ==
    (\A p \in Procs : pc[p] = "done" /\ req[p].kind = "renumber"
                          /\ req[p].status = 200)
        => Ranked(dayBreaks)

AfterPositions(rows) == {b.afterPosition : b \in rows}

\* C12: toggleDayBreak(p) called twice in succession, p >= 0, leaves the
\* set of afterPositions that was there before the first call.
C12_ToggleTwiceRestores ==
    \A p \in Procs :
        (ToggleDone(p) /\ req[p].calls = 1) =>
            /\ req[p].status \in {200, 201}
            /\ AfterPositions(dayBreaks) = AfterPositions(base.dayBreaks)

\* the second call re-created the break, under another dayNumber
C12_Witness ==
    \E p \in Procs :
        /\ ToggleDone(p) /\ req[p].calls = 1
        /\ req[p].action = "created"
        /\ dayBreaks # base.dayBreaks

\* C13: a second renumbering right after the first leaves every day
\* break's dayNumber and afterPosition as the first left them.
C13_RenumberIdempotent ==
    \A p \in Procs :
        (RenumberDone(p) /\ req[p].calls = 1) => dayBreaks = base.dayBreaks

C13_Witness ==
    \E p \in Procs :
        /\ RenumberDone(p) /\ req[p].calls = 1
        /\ Cardinality(dayBreaks) >= 2

----------------------------------------------------------------------------
(* Properties of the reports.                                              *)

Shooting == report.kind \in {"shooting", "shootingPDF"}

Dood == report.kind \in {"dood", "doodPDF"}

\* the segments of the rendered report, each the sequence of its strips
Segments ==
    IF Shooting
    THEN [i \in 1..Len(report.days) |-> report.days[i].strips]
    ELSE report.days

RECURSIVE Flatten(_)
Flatten(segs) ==
    IF Len(segs) = 0 THEN <<>> ELSE segs[1] \o Flatten(Tail(segs))

BreakPositions == {db.afterPosition : db \in schedule.dayBreaks}

SegmentSizes == [i \in 1..Len(Segments) |-> Len(Segments[i])]

\* C14: the day grouping partitions the strips: every strip is in exactly
\* one segment, the segments follow one another in position order, each is
\* a non-empty run of consecutive positions, a segment is closed after each
\* strip whose position is a break's afterPosition and nowhere else, and
\* the remainder is the trailing segment; 5 strips with breaks after 2 and
\* 4 give segments of 2, 2 and 1 strips.
C14_GroupingPartitions ==
    (Shooting \/ Dood) =>
        /\ Flatten(Segments) = schedule.stripSlots
        /\ \A i \in 1..Len(Segments) :
               /\ Len(Segments[i]) >= 1
               /\ \A j \in 1..(Len(Segments[i]) - 1) :
                      /\ Segments[i][j + 1].position = Segments[i][j].position + 1
                      /\ Segments[i][j].position \notin BreakPositions
               /\ i < Len(Segments) =>
                      Segments[i][Len(Segments[i])].position \in BreakPositions
        /\ (Len(schedule.stripSlots) = 5 /\ BreakPositions = {2, 4})
               => SegmentSizes = <<2, 2, 1>>

C14_Witness ==
    /\ Shooting
    /\ Len(schedule.stripSlots) = 5
    /\ BreakPositions = {2, 4}
    /\ SegmentSizes = <<2, 2, 1>>

\* the segments the reports make of the committed tables
BoardSegments == GroupByDay(GetSchedule)

\* C15: with N >= 1 strips and B day breaks, whatever appends, removals,
\* reorders, toggles (any afterPosition >= 0), day-break deletions and
\* renumberings led there, the strips fall into B + 1 segments when the
\* last strip's position is not a break position, and into B when it is.
C15_SegmentCount ==
    (Count(strips) >= 1 /\ \A p \in Procs : NotRunning(p)) =>
        Len(BoardSegments) =
            IF MaxPosition(strips) \in AfterPositions(dayBreaks)
            THEN Cardinality(dayBreaks)
            ELSE Cardinality(dayBreaks) + 1

\* days from 1 January 2024 to the date, counted by the calendar
DaysInYear(year) == IF IsLeapYear(year) THEN 366 ELSE 365

RECURSIVE DaysBeforeYear(_)
DaysBeforeYear(year) ==
    IF year <= 2024 THEN 0
    ELSE DaysBeforeYear(year - 1) + DaysInYear(year - 1)

RECURSIVE DaysBeforeMonth(_, _)
DaysBeforeMonth(year, month) ==
    IF month <= 1 THEN 0
    ELSE DaysBeforeMonth(year, month - 1) + DaysInMonth(year, month - 1)

DayIndex(date) ==
    DaysBeforeYear(date.year) + DaysBeforeMonth(date.year, date.month) + date.day

\* the shown month and day are those of the calendar date n days after
\* the date, in the same year or the next
IsDaysLater(shown, date, n) ==
    \E year \in date.year..(date.year + 1) :
        /\ shown.month \in 1..12
        /\ shown.day \in 1..DaysInMonth(year, shown.month)
        /\ DayIndex([year |-> year, month |-> shown.month, day |-> shown.day])
               = DayIndex(date) + n

StartDay ==
    [year |-> schedule.startDate.datePart[1],
     month |-> schedule.startDate.datePart[2],
     day |-> schedule.startDate.datePart[3]]

\* C16: in the shooting schedule, on screen and in the PDF, the segment at
\* 0-based index i is dated start date + i calendar days when the schedule
\* has a start date, and no segment has a date when it has none.
C16_SegmentDates ==
    Shooting =>
        \A i \in 1..Len(report.days) :
            IF schedule.startDate = NoDate
            THEN report.days[i].shootDate = NoShootDate
            ELSE IsDaysLater(report.days[i].shootDate, StartDay, i - 1)

\* a dated schedule whose last segment falls in the month after the first
C16_Witness ==
    /\ report.kind = "shootingPDF"
    /\ schedule.startDate # NoDate
    /\ Len(report.days) >= 3
    /\ report.days[1].shootDate.month = StartDay.month
    /\ report.days[Len(report.days)].shootDate.month # StartDay.month

\* whether the member is in a scene of segment i of the Day Out of Days
Works(i) == \E j \in 1..Len(report.days[i]) : Member \in report.days[i][j].cast

WorkingSegments == {i \in 1..Len(report.days) : Works(i)}

FirstWork == CHOOSE i \in WorkingSegments : \A j \in WorkingSegments : i <= j

LastWork == CHOOSE i \in WorkingSegments : \A j \in WorkingSegments : j <= i

\* the reference: blank outside the span from first to last work segment,
\* SWF when they are the same segment, SW on the first, WF on the last,
\* W on a work segment between them and H on any other between them
ReferenceStatus(i) ==
    IF WorkingSegments = {} THEN ""
    ELSE IF i < FirstWork \/ i > LastWork THEN ""
    ELSE IF i = FirstWork /\ i = LastWork THEN "SWF"
    ELSE IF i = FirstWork THEN "SW"
    ELSE IF i = LastWork THEN "WF"
    ELSE IF Works(i) THEN "W"
    ELSE "H"

\* C17: the status row of a cast member equals the reference algorithm's;
\* a member who works only in segment 2 of 3 has "", "SWF", "", one who
\* works in segments 1 and 3 of 3 has "SW", "H", "WF".
C17_DoodMatchesReference ==
    Dood =>
        /\ Len(report.statuses) = Len(report.days)
        /\ \A i \in 1..Len(report.days) : report.statuses[i] = ReferenceStatus(i)
        /\ (Len(report.days) = 3 /\ WorkingSegments = {2})
               => report.statuses = <<"", "SWF", "">>
        /\ (Len(report.days) = 3 /\ WorkingSegments = {1, 3})
               => report.statuses = <<"SW", "H", "WF">>

C17_Witness ==
    /\ report.kind = "dood"
    /\ Len(report.days) = 3
    /\ WorkingSegments = {2}
    /\ report.statuses = <<"", "SWF", "">>

StatusAt(s) == {i \in 1..Len(report.statuses) : report.statuses[i] = s}

\* C18: no H before the first or after the last working segment, every H
\* strictly between an SW and a WF, every segment after the last working
\* one blank, and exactly one finish mark (WF or SWF) when the member
\* works at least once.
C18_DoodShape ==
    Dood =>
        /\ \A i \in StatusAt("H") :
               /\ WorkingSegments # {}
               /\ FirstWork < i /\ i < LastWork
               /\ \E a \in StatusAt("SW"), b \in StatusAt("WF") : a < i /\ i < b
        /\ \A i \in 1..Len(report.statuses) :
               (WorkingSegments = {} \/ i > LastWork) => report.statuses[i] = ""
        /\ WorkingSegments # {} =>
               Cardinality(StatusAt("WF") \cup StatusAt("SWF")) = 1

\* the member is held between two work segments and the schedule goes on
\* after the last of them
C18_Witness ==
    /\ report.kind = "doodPDF"
    /\ StatusAt("H") # {}
    /\ WorkingSegments # {}
    /\ LastWork < Len(report.statuses)

\* C19: the working-day count is the number of segments with at least one
\* scene of the member; a member in no scene has every status blank and
\* the count 0.
C19_WorkDays ==
    Dood =>
        /\ report.workDays = Cardinality(WorkingSegments)
        /\ report.workDays =
               Cardinality(StatusAt("SW") \cup StatusAt("W") \cup StatusAt("WF")
                              \cup StatusAt("SWF"))
        /\ WorkingSegments = {} =>
               /\ report.workDays = 0
               /\ \A i \in 1..Len(report.statuses) : report.statuses[i] = ""

C19_Witness ==
    /\ Dood
    /\ report.workDays = 2
    /\ StatusAt("H") # {}
    /\ Len(report.days) >= 4

----------------------------------------------------------------------------
(* Properties of the page counts.                                          *)

\* the number is the fraction n/d
IsFraction(x, n, d) == x.kind = "num" /\ x.n * d = n * x.d

\* C20: for x = k/8, k >= 0, parsePageCount(formatPageCount(x)) = x;
\* formatPageCount(0) = "0", formatPageCount(10/8) = "1 2/8",
\* parsePageCount("3/8") = 3/8 and parsePageCount("1 2/8") = 10/8.
C20_PageCountRoundTrip ==
    /\ pageCount.step = "reparsed" =>
           IsFraction(pageCount.total, pageCount.pages.n, pageCount.pages.d)
    /\ (pageCount.step = "formatted" /\ pageCount.pages = Num(0, 8)) =>
           pageCount.text = <<"0">>
    /\ (pageCount.step = "formatted" /\ pageCount.pages = Num(10, 8)) =>
           pageCount.text = <<"1", " ", "2", "/", "8">>
    /\ (pageCount.step = "parsed" /\ pageCount.text = <<"3", "/", "8">>) =>
           IsFraction(pageCount.total, 3, 8)
    /\ (pageCount.step = "parsed" /\ pageCount.text = <<"1", " ", "2", "/", "8">>) =>
           IsFraction(pageCount.total, 10, 8)

\* 85/8 pages went through "10 5/8" and came back
C20_Witness ==
    /\ pageCount.step = "reparsed"
    /\ pageCount.pages = Num(85, 8)
    /\ pageCount.text = <<"1", "0", " ", "5", "/", "8">>
    /\ IsFraction(pageCount.total, 85, 8)

AllDigits(s) == Len(s) > 0 /\ \A i \in 1..Len(s) : IsDigit(s[i])

\* what a token is worth: an integer its value, a fraction of two integers
\* with a denominator other than 0 its quotient, anything else 0
TokenValue(token) ==
    IF AllDigits(token) THEN Num(DecimalValue(token), 1)
    ELSE LET pieces == split(token, "/")
         IN  IF /\ Len(pieces) = 2
                /\ AllDigits(pieces[1]) /\ AllDigits(pieces[2])
                /\ DecimalValue(pieces[2]) # 0
             THEN Num(DecimalValue(pieces[1]), DecimalValue(pieces[2]))
             ELSE Num(0, 1)

RECURSIVE SumTokens(_)
SumTokens(tokens) ==
    IF Len(tokens) = 0 THEN Num(0, 1)
    ELSE LET v == TokenValue(tokens[1])
             rest == SumTokens(Tail(tokens))
         IN  Num(v.n * rest.d + rest.n * v.d, v.d * rest.d)

\* C21: parsePageCount tolerates malformed text: a token that is neither an
\* integer nor a well-formed fraction (a numerator or denominator that is
\* not a number, a denominator 0) contributes 0, the other tokens their
\* values, the result is a finite non-negative number; null and empty text
\* give 0.
C21_MalformedTokensAreZero ==
    pageCount.step = "parsed" =>
        /\ pageCount.total.kind = "num"
        /\ LET expected ==
                   IF pageCount.text = NoText THEN Num(0, 1)
                   ELSE SumTokens(split(trim(pageCount.text), " "))
           IN  IsFraction(pageCount.total, expected.n, expected.d)

----------------------------------------------------------------------------
(* Properties of the start date.                                           *)

StartDateDone(p) == pc[p] = "done" /\ req[p].kind = "setStartDate"

\* C22: setting, changing or clearing the start date leaves every strip's
\* position and every day break's afterPosition and dayNumber unchanged.
C22_StartDateFrame ==
    \A p \in Procs :
        StartDateDone(p) =>
            /\ strips = base.strips
            /\ dayBreaks = base.dayBreaks
            /\ startDate = IF req[p].startDate = NoDate THEN NoDate
                           ELSE NewDate(req[p].startDate)

\* the start date of a schedule with strips and day breaks was changed
C22_Witness ==
    \E p \in Procs :
        /\ StartDateDone(p)
        /\ base.startDate # NoDate
        /\ startDate # NoDate
        /\ startDate # base.startDate
        /\ Count(strips) >= 2
        /\ Cardinality(dayBreaks) >= 2

----------------------------------------------------------------------------
(* Properties of the access gate.                                          *)

HasEditRights(caller) == caller \in {"owner", "admin", "editor"}

\* C23: a request of a caller who is neither owner, admin nor editor (a
\* viewer, a non-member, a caller without a session) to reorder, toggle,
\* renumber, delete a day break, set the start date, create or delete a
\* scene is answered 401, 403 or 404 by the gate itself, never enters the
\* handler, and leaves the strips, the day breaks and the start date as
\* they were.
C23_NoEditWithoutRights ==
    \A p \in Procs :
        (~NotRunning(p) /\ ~HasEditRights(base.caller)) =>
            /\ pc[p] = "done"
            /\ req[p].status \in {401, 403, 404}
            /\ strips = base.strips
            /\ dayBreaks = base.dayBreaks
            /\ startDate = base.startDate
            /\ nextStrip = base.nextStrip
            /\ nextBreak = base.nextBreak
            /\ tx[p] = NoTx

\* a viewer's reorder on a schedule with strips was answered 403
C23_Witness ==
    \E p \in Procs :
        /\ pc[p] = "done"
        /\ base.caller = "viewer"
        /\ req[p].kind = "reorder"
        /\ req[p].status = 403
        /\ Count(strips) >= 2

----------------------------------------------------------------------------
(* Properties of scenes and their strips.                                  *)

\* C24: in every state each scene of the project has its strip in the
\* schedule and each strip the scene it is bound to: creating a scene
\* creates its strip in the same atomic step, deleting a scene deletes
\* its strip in the same atomic step, and no scene is ever without a
\* strip nor a strip without a scene.
C24_SceneHasItsStrip ==
    /\ sheets = Present(strips)
    /\ \A p \in Procs :
           (pc[p] = "done" /\ req[p].kind = "create" /\ req[p].status = 201) =>
               (req[p].bdId \in sheets <=> strips[req[p].bdId] # NoRow)

\* one scene has been created and another removed
C24_Witness ==
    /\ sheets # {}
    /\ \E p \in Procs : DeleteDone(p) /\ req[p].status = 200
    /\ \E p \in Procs : pc[p] = "done" /\ req[p].kind = "create"
                            /\ req[p].bdId \in sheets

----------------------------------------------------------------------------
(* Properties of the views of one schedule.                                *)

Viewed == report.kind = "views"

\* C25: with a start date, the shoot date on the k-th END OF DAY row of
\* the strip board (start date + dayNumber - 1) is the date the shooting
\* schedule gives to the k-th day segment, the one this break closes
\* (start date + k - 1); the row's dayNumber is k.
C25_BoardDatesMatchReport ==
    (Viewed /\ schedule.startDate # NoDate) =>
        \A k \in 1..Len(report.rows) :
            /\ report.rows[k].shootDate = report.days[k].shootDate
            /\ report.rows[k].dayNumber = k

\* the sizes of the day segments the reports make of strips and day breaks
SegmentSizesOf(v, rows) ==
    LET days == GroupByDay([stripSlots |-> StripSlotsOf(v), dayBreaks |-> rows,
                            startDate |-> NoDate])
    IN  [i \in 1..Len(days) |-> Len(days[i].strips)]

\* C26: a reorder leaves the day breaks as they were: the same
\* (afterPosition, dayNumber) pairs, hence day segments of the same
\* position ranges and sizes; only the scenes at the positions change.
C26_ReorderKeepsDayBreaks ==
    \A p \in Procs :
        ReorderDone(p) =>
            /\ dayBreaks = base.dayBreaks
            /\ Count(strips) >= 1 =>
                   SegmentSizesOf(strips, dayBreaks)
                       = SegmentSizesOf(base.strips, base.dayBreaks)

\* a strip was moved across a day break
C26_Witness ==
    \E p \in Procs :
        /\ ReorderDone(p)
        /\ req[p].status = 200
        /\ strips # base.strips
        /\ \E b \in dayBreaks :
              /\ req[p].oldPosition <= b.afterPosition
              /\ b.afterPosition < req[p].newPosition
        /\ Len(SegmentSizesOf(strips, dayBreaks)) >= 2

\* C27: with day breaks toggled only under strips the board shows, every
\* day break's afterPosition is the position of a strip, 1..N; removing a
\* scene leaves no day break beyond the remaining strips.
C27_BreaksWithinStrips ==
    (\A p \in Procs : NotRunning(p)) =>
        \A b \in dayBreaks : b.afterPosition \in 1..Count(strips)

\* C28: the dayNumbers of a schedule's day breaks are pairwise distinct,
\* whatever toggle, day-break removal and renumber requests have run and
\* however they interleaved.
C28_DayNumbersDistinct ==
    \A a \in dayBreaks, b \in dayBreaks : a.dayNumber = b.dayNumber => a = b

\* C29: the strip-board header's day count and, on a dated schedule, the
\* number of dates the calendar marks as shoot days both equal the number of
\* day segments of the reports.
C29_DayCountsAgree ==
    Viewed =>
        /\ report.totalDays = Len(report.days)
        /\ schedule.startDate # NoDate =>
               Cardinality(report.shootDays) = Len(report.days)

\* the numerators of the "/8" fractions in a rendered page count
EighthsNumerators(text) ==
    LET parts == split(text, " ")
    IN  {split(parts[i], "/")[1] : i \in {j \in 1..Len(parts) : includes(parts[j], "/")}}

\* C30: formatPageCount never renders 8/8: whatever the non-negative total,
\* a sum of sixteenths or thirds included, the numerator of the eighths it
\* renders is between 1 and 7; a remainder that rounds to 8/8 is carried
\* into the whole part.
C30_NeverEightEighths ==
    pageCount.step = "rendered" =>
        \A numerator \in EighthsNumerators(pageCount.text) :
            /\ AllDigits(numerator)
            /\ DecimalValue(numerator) \in 1..7

====
